---- MODULE Spec2Model ----
(***************************************************************************)
(* Note lifecycle and synchronisation engine of Notefied                   *)
(* (src/frontend/src/App.tsx, component App, first revision in the file).  *)
(*                                                                         *)
(* One action per event handler, timer callback or network completion.     *)
(* Every action ends with the render that follows it: the title effect     *)
(* (App.tsx 477-486) and the autosave effect (App.tsx 489-499) are applied *)
(* by Commit, so a timer is re-armed exactly when a dependency of the      *)
(* autosave effect changed.  An asynchronous function is a task in         *)
(* `tasks`, holding the values its closure captured when it was called.    *)
(*                                                                         *)
(* Strings are sequences of characters over Chars; null ids are NoId; an   *)
(* optional object (tempDeletedNote, the armed timer) is a sequence of     *)
(* length 0 or 1.                                                          *)
(***************************************************************************)
EXTENDS Integers, Sequences, FiniteSets, TLC

\* ------------------------------------------------------------------ bounds
MaxLen == 2        \* longest string the user types
MaxNotes == 2      \* ids the server hands out
MaxClock == 2      \* timestamps the server hands out after start
MaxInFlight == 2   \* asynchronous functions outstanding at once
MaxEvents == 4     \* user events after signing in
MaxLogins == 1     \* times the user signs in
MaxTitleLen == 12  \* longest content a title is derived from
MaxWsLen == 5      \* longest such content that mixes spaces and line breaks

\* --------------------------------------------------------------- constants
TitleWords == 5    \* words.slice(0, 5)
NoId == 0          \* selectedNoteId === null

Chars == {"a", " "}
Whitespace == {" ", "\n"}    \* the characters of the model that \s matches
QueryChars == {"a", "A", " "}
Ellipsis == <<".", ".", ".">>

Contents == UNION {[1..n -> Chars] : n \in 0..MaxLen}
Queries == UNION {[1..n -> QueryChars] : n \in 0..MaxLen}
NoteIds == 1..MaxNotes

\* ------------------------------------------------------------ pure helpers
RECURSIVE trimStart(_)
trimStart(s) ==
  IF s = <<>> THEN <<>>
  ELSE IF Head(s) \in Whitespace THEN trimStart(Tail(s)) ELSE s

RECURSIVE trimEnd(_)
trimEnd(s) ==
  IF s = <<>> THEN <<>>
  ELSE IF s[Len(s)] \in Whitespace THEN trimEnd(SubSeq(s, 1, Len(s) - 1))
  ELSE s

\* String.prototype.trim
trim(s) == trimEnd(trimStart(s))

\* s.split(/\s+/) on a trimmed, non-empty string: the maximal runs of
\* non-whitespace characters, in order.
RECURSIVE splitWs(_, _, _)
splitWs(s, cur, acc) ==
  IF s = <<>> THEN (IF cur = <<>> THEN acc ELSE Append(acc, cur))
  ELSE IF Head(s) \in Whitespace
       THEN splitWs(Tail(s), <<>>, IF cur = <<>> THEN acc ELSE Append(acc, cur))
       ELSE splitWs(Tail(s), Append(cur, Head(s)), acc)

split(s) == splitWs(s, <<>>, <<>>)

\* words.join(' ')
RECURSIVE join(_)
join(ws) ==
  IF ws = <<>> THEN <<>>
  ELSE IF Len(ws) = 1 THEN ws[1]
  ELSE ws[1] \o <<" ">> \o join(Tail(ws))

Min(a, b) == IF a < b THEN a ELSE b

\* The same, if the ellipsis were added from five words on.
titleOfWordsEllipsisAtFive(words) ==
  join(SubSeq(words, 1, Min(TitleWords, Len(words))))
    \o (IF Len(words) >= TitleWords THEN Ellipsis ELSE <<>>)

\* The same, if six words were kept.
titleOfSixWords(words) ==
  join(SubSeq(words, 1, Min(TitleWords + 1, Len(words))))
    \o (IF Len(words) > TitleWords + 1 THEN Ellipsis ELSE <<>>)

\* words.slice(0, 5).join(' ') + (words.length > 5 ? '...' : '')
titleOfWords(words) ==
  join(SubSeq(words, 1, Min(TitleWords, Len(words))))
    \o (IF Len(words) > TitleWords THEN Ellipsis ELSE <<>>)

\* The title effect's value for a content string.
deriveTitle(content) ==
  IF trim(content) = <<>> THEN <<>> ELSE titleOfWords(split(trim(content)))

\* ---------------------------------------------------------------- sorting
\* Array.prototype.sort with (a, b) => Date(b.updated_at) - Date(a.updated_at):
\* stable, descending.
RECURSIVE insertByUpdated(_, _)
insertByUpdated(x, s) ==
  IF s = <<>> THEN <<x>>
  ELSE IF x.updated_at > Head(s).updated_at THEN <<x>> \o s
  ELSE <<Head(s)>> \o insertByUpdated(x, Tail(s))

RECURSIVE sortByUpdated(_)
sortByUpdated(s) ==
  IF s = <<>> THEN <<>>
  ELSE insertByUpdated(s[Len(s)], sortByUpdated(SubSeq(s, 1, Len(s) - 1)))

\* The same with trashed_at.
RECURSIVE insertByTrashed(_, _)
insertByTrashed(x, s) ==
  IF s = <<>> THEN <<x>>
  ELSE IF x.trashed_at > Head(s).trashed_at THEN <<x>> \o s
  ELSE <<Head(s)>> \o insertByTrashed(x, Tail(s))

RECURSIVE sortByTrashed(_)
sortByTrashed(s) ==
  IF s = <<>> THEN <<>>
  ELSE insertByTrashed(s[Len(s)], sortByTrashed(SubSeq(s, 1, Len(s) - 1)))

\* notes.filter((note) => note.id !== id)
withoutId(s, id) == LET keep(n) == n.id # id IN SelectSeq(s, keep)

\* notes.filter((note) => !ids.includes(note.id))
withoutIds(s, S) == LET keep(n) == n.id \notin S IN SelectSeq(s, keep)

ids(s) == {s[i].id : i \in 1..Len(s)}

removeAt(s, i) == SubSeq(s, 1, i - 1) \o SubSeq(s, i + 1, Len(s))

\* ------------------------------------------------------------------ state
VARIABLES
  notes,                 \* active notes, as the client holds them
  trashedNotes,          \* trashed notes, as the client holds them
  selectedNoteId,        \* id of the note open in the editor, or NoId
  newContent,            \* content of the textarea
  originalContent,       \* baseline content of the dirty check
  currentTitle,          \* title of the open note
  originalTitle,         \* baseline title of the dirty check
  tempDeletedNote,       \* the undo buffer: <<>> or <<note>>
  token,                 \* TRUE when signed in
  isTrashView,           \* TRUE while the trash view is shown
  selectedTrashedNotes,  \* ids selected in the trash view
  showDeleteConfirmModal,    \* TRUE while the purge confirmation is shown
  notesToDeletePermanently,  \* ids the confirmation is about
  searchQuery,           \* text of the search input
  timer,                 \* the armed autosave timer: <<>> or <<closure>>
  undoListener,          \* TRUE when handleKeyDown is attached to the mounted textarea
  tasks,                 \* asynchronous functions awaiting a response
  srv,                   \* the persistence service's notes, by id
  clock,                 \* the persistence service's clock
  authorized,            \* TRUE while the services accept the issued token
  events,                \* history: user events so far, sign-ins apart
  edits,                 \* history: content changes among them
  logins,                \* history: sign-ins so far
  origin                 \* history: id of the note newContent belongs to

vars == <<notes, trashedNotes, selectedNoteId, newContent, originalContent,
          currentTitle, originalTitle, tempDeletedNote, token, isTrashView,
          selectedTrashedNotes, showDeleteConfirmModal,
          notesToDeletePermanently, searchQuery, timer, undoListener, tasks,
          srv, clock, authorized, events, edits, logins, origin>>

budgetVars == <<events, edits, logins>>

\* A user event other than typing takes place.
UserEvent ==
  /\ events < MaxEvents
  /\ events' = events + 1
  /\ UNCHANGED <<edits, logins>>

serverVars == <<srv, clock, authorized>>

\* authMiddleware: the outcomes of a GET that carries the token.
Answers == IF authorized THEN BOOLEAN ELSE {FALSE}

\* authMiddleware lets a request that carries the token through to its
\* handler.
Accepted == authorized /\ UNCHANGED authorized

\* No alert() dialog is raised.
NoAlert == ""

\* The component's state as one record (the values a render closes over);
\* alert is the message of the dialog a handler raises, which blocks the
\* handler until it is dismissed and is no state of the component.
Cl ==
  [notes |-> notes, trashedNotes |-> trashedNotes, sel |-> selectedNoteId,
   content |-> newContent, ocontent |-> originalContent,
   title |-> currentTitle, otitle |-> originalTitle,
   tomb |-> tempDeletedNote, token |-> token, trashView |-> isTrashView,
   selTrash |-> selectedTrashedNotes, modal |-> showDeleteConfirmModal,
   toPurge |-> notesToDeletePermanently, query |-> searchQuery,
   alert |-> NoAlert]

\* alert(msg)
alerted(n, msg) == [n EXCEPT !.alert = msg]

\* ----------------------------------------------------------------- search
\* String.prototype.toLowerCase on the characters of the model
lowerOf(c) == IF c = "A" THEN "a" ELSE c

toLowerCase(s) == [i \in 1..Len(s) |-> lowerOf(s[i])]

\* String.prototype.includes
includes(s, q) ==
  \E k \in 0..(Len(s) - Len(q)) : SubSeq(s, k + 1, k + Len(q)) = q

\* The predicate of both filters.
matches(note, q) ==
  \/ includes(toLowerCase(note.title), toLowerCase(q))
  \/ includes(toLowerCase(note.content), toLowerCase(q))

\* filteredNotes and filteredTrashedNotes: the notes that match the search
\* query, in the order of the list.
filteredNotes(n) ==
  LET keep(x) == matches(x, n.query) IN sortByUpdated(SelectSeq(n.notes, keep))

filteredTrashedNotes(n) ==
  LET keep(x) == matches(x, n.query)
  IN sortByTrashed(SelectSeq(n.trashedNotes, keep))

\* ----------------------------------------------------------------- server
NoNote == [st |-> "none", title |-> <<>>, content |-> <<>>,
           updated_at |-> 0, trashed_at |-> 0]

\* A row as the service returns it.
noteOf(s, id) ==
  [id |-> id, title |-> s[id].title, content |-> s[id].content,
   updated_at |-> s[id].updated_at]

trashedOf(s, id) ==
  [id |-> id, title |-> s[id].title, content |-> s[id].content,
   updated_at |-> s[id].updated_at, trashed_at |-> s[id].trashed_at]

\* GET /notes: SELECT ... ORDER BY updated_at DESC
srvList(s) ==
  LET all == [i \in 1..MaxNotes |-> noteOf(s, i)]
      act(n) == s[n.id].st = "active"
  IN sortByUpdated(SelectSeq(all, act))

\* GET /trashed-notes
srvListTrashed(s) ==
  LET all == [i \in 1..MaxNotes |-> trashedOf(s, i)]
      tr(n) == s[n.id].st = "trashed"
  IN SelectSeq(all, tr)

freeIds(s) == {i \in NoteIds : s[i].st = "none"}

\* SERIAL primary key: the smallest id not handed out yet.
nextId(s) == CHOOSE i \in freeIds(s) : \A j \in freeIds(s) : i <= j

\* POST /notes: body('title').trim(), body('content').trim(), INSERT ... RETURNING *
\* (escape() is the identity on Chars.)
srvCreate(s, now, title, content) ==
  [s EXCEPT ![nextId(s)] =
     [st |-> "active", title |-> trim(title), content |-> trim(content),
      updated_at |-> now, trashed_at |-> 0]]

\* PUT /notes/:id: the title is derived from the trimmed content by the
\* service; updated_at = NOW().
srvUpdate(s, now, id, content) ==
  [s EXCEPT ![id] =
     [@ EXCEPT !.title = titleOfWords(split(trim(content))),
               !.content = trim(content), !.updated_at = now]]

\* DELETE /trashed-notes/:id: the row is gone and its id is not reused.
srvPurge(s, id) == [s EXCEPT ![id] = [@ EXCEPT !.st = "purged"]]

\* DELETE /notes/:id (move to trash), POST /trashed-notes/:id/restore
srvTrash(s, now, id) == [s EXCEPT ![id] = [@ EXCEPT !.st = "trashed", !.trashed_at = now]]
srvRestore(s, id) == [s EXCEPT ![id] = [@ EXCEPT !.st = "active", !.trashed_at = 0]]

\* What the service may hold when the page loads: the notes of earlier
\* sessions, ids handed out in order, each with the title this client
\* derives for its content, some of them in the trash.
initContent(i) == [k \in 1..Min(i, MaxLen) |-> "a"]

initNote(i, st) ==
  [st |-> st, title |-> deriveTitle(initContent(i)), content |-> initContent(i),
   updated_at |-> i, trashed_at |-> IF st = "trashed" THEN MaxNotes + i ELSE 0]

InitServers ==
  {[i \in NoteIds |-> IF i <= k THEN initNote(i, f[i]) ELSE NoNote] :
     k \in 0..MaxNotes, f \in [NoteIds -> {"active", "trashed"}]}

InitClock == 2 * MaxNotes

\* The bound on the timestamps handed out.
clockLeft == clock < InitClock + MaxClock

\* ---------------------------------------------------------------- effects
\* Title effect, deps [newContent, isTitleManual]; isTitleManual is never
\* set to true in this revision, so the effect runs when newContent changed.
titleEffect(n) ==
  IF n.content # newContent
  THEN [n EXCEPT !.title = deriveTitle(n.content)]
  ELSE n

\* The autosave effect with only token and the callbacks' identity among its
\* dependencies.
autosaveDepsChangedTokenOnly(n, notesSet) ==
  \/ n.token # token
  \/ notesSet

\* The autosave effect without newContent among its dependencies.
autosaveDepsChangedNoContent(n, notesSet) ==
  \/ n.title # currentTitle
  \/ n.sel # selectedNoteId
  \/ n.token # token
  \/ n.ocontent # originalContent
  \/ n.otitle # originalTitle
  \/ notesSet
  \/ n.tomb # tempDeletedNote

\* Autosave effect: has one of its dependencies changed in this render?
\* addNote and saveEdit are re-created (useCallback) when notes or
\* tempDeletedNote change, and setNotes always passes a new array.
autosaveDepsChanged(n, notesSet) ==
  \/ n.content # newContent
  \/ n.title # currentTitle
  \/ n.sel # selectedNoteId
  \/ n.token # token
  \/ n.ocontent # originalContent
  \/ n.otitle # originalTitle
  \/ notesSet
  \/ n.tomb # tempDeletedNote

\* The autosave effect, if it armed the timer for a blank content too.
armTimerAnyContent(n) ==
  IF n.token
  THEN <<[sel |-> n.sel, content |-> n.content, ocontent |-> n.ocontent,
          title |-> n.title, otitle |-> n.otitle, notes |-> n.notes,
          tomb |-> n.tomb, token |-> n.token]>>
  ELSE <<>>

\* if (!token || !newContent.trim()) return; const timer = setTimeout(...)
armTimer(n) ==
  IF n.token /\ trim(n.content) # <<>>
  THEN <<[sel |-> n.sel, content |-> n.content, ocontent |-> n.ocontent,
          title |-> n.title, otitle |-> n.otitle, notes |-> n.notes,
          tomb |-> n.tomb, token |-> n.token]>>
  ELSE <<>>

\* The textarea is rendered in the notes view of a signed-in user.
textareaMounted(n) == n.token /\ ~n.trashView

\* Undo effect, deps [tempDeletedNote]: when the buffer changed, the old
\* listener is removed and a new one is attached if the textarea is mounted
\* and the buffer holds a note; otherwise the listener stays on the element
\* it was attached to, which is gone once the textarea is unmounted.
undoEffect(n) ==
  IF n.tomb # tempDeletedNote
  THEN textareaMounted(n) /\ n.tomb # <<>>
  ELSE undoListener /\ textareaMounted(n)

\* The render after an event: n is the state the handler's setState calls
\* leave, notesSet says whether setNotes was called.
CommitT(n, notesSet, oldTimer) ==
  LET m == titleEffect(n) IN
  /\ notes' = m.notes
  /\ trashedNotes' = m.trashedNotes
  /\ selectedNoteId' = m.sel
  /\ newContent' = m.content
  /\ originalContent' = m.ocontent
  /\ currentTitle' = m.title
  /\ originalTitle' = m.otitle
  /\ tempDeletedNote' = m.tomb
  /\ token' = m.token
  /\ isTrashView' = m.trashView
  /\ selectedTrashedNotes' = m.selTrash
  /\ showDeleteConfirmModal' = m.modal
  /\ notesToDeletePermanently' = m.toPurge
  /\ searchQuery' = m.query
  /\ timer' = IF autosaveDepsChanged(m, notesSet) THEN armTimer(m) ELSE oldTimer
  /\ undoListener' = undoEffect(m)

Commit(n, notesSet) == CommitT(n, notesSet, timer)

\* resetNoteState
resetNoteState(n) ==
  [n EXCEPT !.sel = NoId, !.content = <<>>, !.ocontent = <<>>, !.title = <<>>,
            !.otitle = <<>>, !.tomb = <<>>]

Init ==
  /\ notes = <<>>
  /\ trashedNotes = <<>>
  /\ selectedNoteId = NoId
  /\ newContent = <<>>
  /\ originalContent = <<>>
  /\ currentTitle = <<>>
  /\ originalTitle = <<>>
  /\ tempDeletedNote = <<>>
  /\ token = FALSE
  /\ isTrashView = FALSE
  /\ selectedTrashedNotes = {}
  /\ showDeleteConfirmModal = FALSE
  /\ notesToDeletePermanently = {}
  /\ searchQuery = <<>>
  /\ timer = <<>>
  /\ undoListener = FALSE
  /\ tasks = <<>>
  /\ srv \in InitServers
  /\ clock = InitClock
  /\ authorized = TRUE
  /\ events = 0
  /\ edits = 0
  /\ logins = 0
  /\ origin = NoId

\* ----------------------------------------------------------- user events
\* notes.find((note) => note.id === id): <<>> or <<the first match>>
findNote(s, id) ==
  LET I == {i \in 1..Len(s) : s[i].id = id}
  IN IF I = {} THEN <<>> ELSE <<s[CHOOSE i \in I : \A j \in I : i <= j]>>

\* handleContentChange that keeps the cleared note in the collection.
contentChangedKeepsNote(n, content) ==
  LET n1 == [n EXCEPT !.content = content]
      found == findNote(n.notes, n.sel)
  IN IF trim(content) = <<>> /\ n.sel # NoId /\ n.tomb = <<>>
     THEN IF found # <<>>
          THEN [n1 EXCEPT !.tomb = found, !.sel = NoId]
          ELSE n1
     ELSE IF trim(content) # <<>> /\ n.tomb # <<>>
          THEN [n1 EXCEPT !.tomb = <<>>]
          ELSE n1

\* handleContentChange
contentChanged(n, content) ==
  LET n1 == [n EXCEPT !.content = content]
      found == findNote(n.notes, n.sel)
  IN IF trim(content) = <<>> /\ n.sel # NoId /\ n.tomb = <<>>
     THEN IF found # <<>>
          THEN [n1 EXCEPT !.tomb = found, !.notes = withoutId(n.notes, n.sel),
                          !.sel = NoId]
          ELSE n1
     ELSE IF trim(content) # <<>> /\ n.tomb # <<>>
          THEN [n1 EXCEPT !.tomb = <<>>]
          ELSE n1

\* handleContentChange with a value of the textarea taken from S
ContentChange(S) ==
  /\ token /\ ~isTrashView
  /\ events < MaxEvents
  /\ events' = events + 1
  /\ edits' = edits + 1
  /\ logins' = logins
  /\ \E content \in S :
       /\ content # newContent
       /\ LET n == contentChanged(Cl, content) IN
          /\ Commit(n, n.notes # notes)
          /\ origin' = n.sel
  /\ UNCHANGED <<tasks, serverVars>>

HandleContentChange == ContentChange(Contents)

\* note tile onClick that leaves the undo buffer alone.
noteClickedKeepsTomb(n, note) ==
  [n EXCEPT !.sel = note.id, !.content = note.content, !.title = note.title,
            !.ocontent = note.content, !.otitle = note.title]

\* note tile onClick
noteClicked(n, note) ==
  [n EXCEPT !.sel = note.id, !.content = note.content, !.title = note.title,
            !.ocontent = note.content, !.otitle = note.title, !.tomb = <<>>]

SelectNote ==
  /\ UserEvent
  /\ token /\ ~isTrashView
  /\ \E i \in 1..Len(notes) :
       /\ matches(notes[i], searchQuery)
       /\ notes[i].id # selectedNoteId
       /\ Commit(noteClicked(Cl, notes[i]), FALSE)
       /\ origin' = notes[i].id
  /\ UNCHANGED <<tasks, serverVars>>

\* "+" button: onClick={resetNoteState}
NewNoteClick ==
  /\ UserEvent
  /\ token /\ ~isTrashView
  /\ Commit(resetNoteState(Cl), FALSE)
  /\ origin' = NoId
  /\ UNCHANGED <<tasks, serverVars>>

\* handleKeyDown of the undo effect
undone(n) ==
  LET t == n.tomb[1] IN
  [n EXCEPT !.notes = sortByUpdated(Append(n.notes, t)), !.sel = t.id,
            !.content = t.content, !.title = t.title, !.ocontent = t.content,
            !.otitle = t.title, !.tomb = <<>>]

\* Ctrl+Z in the textarea: the key press reaches handleKeyDown only through
\* an attached listener.
undoPressed(n) == IF undoListener THEN undone(n) ELSE n

UndoKey ==
  /\ UserEvent
  /\ token /\ ~isTrashView
  /\ tempDeletedNote # <<>>
  /\ Commit(undoPressed(Cl), undoListener)
  /\ origin' = IF undoListener THEN tempDeletedNote[1].id ELSE origin
  /\ UNCHANGED <<tasks, serverVars>>

\* trash button of the notes view
OpenTrash ==
  /\ UserEvent
  /\ token /\ ~isTrashView
  /\ Commit([Cl EXCEPT !.trashView = TRUE, !.query = <<>>], FALSE)
  /\ UNCHANGED <<tasks, serverVars, origin>>

\* handleBackToNotes
HandleBackToNotes ==
  /\ UserEvent
  /\ token /\ isTrashView /\ ~showDeleteConfirmModal
  /\ Commit([Cl EXCEPT !.trashView = FALSE, !.selTrash = {},
                        !.query = <<>>], FALSE)
  /\ UNCHANGED <<tasks, serverVars, origin>>

\* trashed tile onClick
toggled(sel, id) == IF id \in sel THEN sel \ {id} ELSE sel \cup {id}

ToggleTrashed ==
  /\ UserEvent
  /\ token /\ isTrashView /\ ~showDeleteConfirmModal
  /\ \E id \in ids(filteredTrashedNotes(Cl)) :
       Commit([Cl EXCEPT !.selTrash = toggled(selectedTrashedNotes, id)], FALSE)
  /\ UNCHANGED <<tasks, serverVars, origin>>

\* logout, if it left the token and the editor as they are.
loggedOutKeepsEditor(n) ==
  [n EXCEPT !.notes = <<>>, !.trashedNotes = <<>>, !.trashView = FALSE,
            !.selTrash = {}, !.modal = FALSE, !.query = <<>>]

\* logout
loggedOut(n) ==
  [resetNoteState(n) EXCEPT !.token = FALSE, !.notes = <<>>,
     !.trashedNotes = <<>>, !.trashView = FALSE, !.selTrash = {},
     !.modal = FALSE, !.query = <<>>]

Logout ==
  /\ UserEvent
  /\ token /\ ~showDeleteConfirmModal
  /\ Commit(loggedOut(Cl), TRUE)
  /\ origin' = NoId
  /\ UNCHANGED <<tasks, serverVars>>

\* ------------------------------------------------------- autosave timer
\* addNote up to its await: <<>> on the early return, else the request
\* with what the closure holds for the continuation.
addNoteRequest(c) ==
  IF ~c.token \/ trim(c.content) = <<>> THEN <<>>
  ELSE LET words == split(trim(c.content))
           title == IF trim(c.title) # <<>> THEN trim(c.title)
                    ELSE titleOfWords(words)
       IN <<[kind |-> "create", title |-> title, content |-> c.content,
             notes |-> c.notes, org |-> origin, at |-> events,
             ed |-> edits]>>

\* saveEdit takes its early branch (content blank and a buffered note).
saveEditFinalizes(c) ==
  c.token /\ c.sel # NoId /\ trim(c.content) = <<>> /\ c.tomb # <<>>

\* saveEdit up to its await.
saveEditRequest(c) ==
  IF ~c.token \/ c.sel = NoId \/ saveEditFinalizes(c) THEN <<>>
  ELSE LET contentToSave == trim(c.content)
           titleToSave == IF contentToSave = <<>> THEN <<>> ELSE c.title
       IN <<[kind |-> "update", id |-> c.sel, title |-> titleToSave,
             content |-> contentToSave, notes |-> c.notes, org |-> origin, at |-> events,
             ed |-> edits]>>

\* if (selectedNoteId === null) addNote(); else if (dirty) saveEdit();
timerCallsSaveEdit(c) ==
  c.sel # NoId /\ (c.content # c.ocontent \/ c.title # c.otitle)

timerRequest(c) ==
  IF c.sel = NoId THEN addNoteRequest(c)
  ELSE IF timerCallsSaveEdit(c) THEN saveEditRequest(c)
  ELSE <<>>

\* The timer callback of a timer that stays armed after it ran.
TimerFireStaysArmed ==
  /\ timer # <<>>
  /\ LET c == timer[1]
         req == timerRequest(c)
         n == IF timerCallsSaveEdit(c) /\ saveEditFinalizes(c)
              THEN [Cl EXCEPT !.tomb = <<>>, !.sel = NoId, !.content = <<>>,
                              !.title = <<>>]
              ELSE Cl
     IN /\ req # <<>> => Len(tasks) < MaxInFlight
        /\ tasks' = tasks \o req
        /\ CommitT(n, FALSE, timer)
  /\ UNCHANGED <<budgetVars, serverVars, origin>>

TimerFire ==
  /\ timer # <<>>
  /\ LET c == timer[1]
         req == timerRequest(c)
         n == IF timerCallsSaveEdit(c) /\ saveEditFinalizes(c)
              THEN [Cl EXCEPT !.tomb = <<>>, !.sel = NoId, !.content = <<>>,
                              !.title = <<>>]
              ELSE Cl
     IN /\ req # <<>> => Len(tasks) < MaxInFlight
        /\ tasks' = tasks \o req
        /\ CommitT(n, FALSE, <<>>)
  /\ UNCHANGED <<budgetVars, serverVars, origin>>

\* ------------------------------------------------------------ completions
\* addNote after a 2xx response that leaves the undo buffer alone.
noteAddedKeepsTomb(n, t, resp) ==
  [n EXCEPT !.notes = sortByUpdated(<<resp>> \o t.notes), !.sel = resp.id,
            !.title = resp.title, !.otitle = resp.title,
            !.ocontent = t.content]

\* addNote after a 2xx response that leaves originalTitle alone.
noteAddedNoOriginalTitle(n, t, resp) ==
  [n EXCEPT !.notes = sortByUpdated(<<resp>> \o t.notes), !.sel = resp.id,
            !.title = resp.title, !.ocontent = t.content, !.tomb = <<>>]

\* addNote after a 2xx response
noteAdded(n, t, resp) ==
  [n EXCEPT !.notes = sortByUpdated(<<resp>> \o t.notes), !.sel = resp.id,
            !.title = resp.title, !.otitle = resp.title,
            !.ocontent = t.content, !.tomb = <<>>]

CreateOk ==
  /\ \E i \in 1..Len(tasks) :
       LET t == tasks[i] IN
       /\ t.kind = "create"
       /\ freeIds(srv) # {} /\ clockLeft
       /\ LET id == nextId(srv)
              s2 == srvCreate(srv, clock + 1, t.title, t.content)
          IN /\ srv' = s2
             /\ clock' = clock + 1
             /\ Commit(noteAdded(Cl, t, noteOf(s2, id)), TRUE)
             /\ origin' = IF origin = NoId THEN id ELSE origin
       /\ tasks' = removeAt(tasks, i)
  /\ Accepted
  /\ UNCHANGED budgetVars

\* addNote's catch if it also reset the session.
CreateFailResets ==
  /\ \E i \in 1..Len(tasks) :
       /\ tasks[i].kind = "create"
       /\ tasks' = removeAt(tasks, i)
  /\ Commit(resetNoteState(Cl), FALSE)
  /\ UNCHANGED <<budgetVars, serverVars, origin>>

\* addNote's catch: alert('Failed to add note')
\* addNote's catch: console.error, alert
createFailed(n) == alerted(n, "Failed to add note")

CreateFail ==
  /\ \E i \in 1..Len(tasks) :
       /\ tasks[i].kind = "create"
       /\ tasks' = removeAt(tasks, i)
  /\ Commit(createFailed(Cl), FALSE)
  /\ UNCHANGED <<budgetVars, serverVars, origin>>

\* notes.map((note) => (note.id === id ? resp : note))
replaced(s, id, resp) == [i \in 1..Len(s) |-> IF s[i].id = id THEN resp ELSE s[i]]

\* saveEdit after a 2xx response that does not sort.
editSavedUnsorted(n, t, resp) ==
  [n EXCEPT !.notes = replaced(t.notes, t.id, resp),
            !.ocontent = t.content, !.otitle = t.title, !.title = t.title,
            !.tomb = <<>>]

\* saveEdit after a 2xx response
editSaved(n, t, resp) ==
  [n EXCEPT !.notes = sortByUpdated(replaced(t.notes, t.id, resp)),
            !.ocontent = t.content, !.otitle = t.title, !.title = t.title,
            !.tomb = <<>>]

UpdateOk ==
  /\ \E i \in 1..Len(tasks) :
       LET t == tasks[i] IN
       /\ t.kind = "update"
       /\ srv[t.id].st = "active" /\ clockLeft
       /\ LET s2 == srvUpdate(srv, clock + 1, t.id, t.content)
          IN /\ srv' = s2
             /\ clock' = clock + 1
             /\ Commit(editSaved(Cl, t, noteOf(s2, t.id)), TRUE)
       /\ tasks' = removeAt(tasks, i)
  /\ Accepted
  /\ UNCHANGED <<budgetVars, origin>>

\* saveEdit's catch: console.error only
updateFailed(n) == n

UpdateFail ==
  /\ \E i \in 1..Len(tasks) :
       /\ tasks[i].kind = "update"
       /\ tasks' = removeAt(tasks, i)
  /\ Commit(updateFailed(Cl), FALSE)
  /\ UNCHANGED <<budgetVars, serverVars, origin>>

\* --------------------------------------------------- fetches and sign-in
\* fetchNotes: setNotes(response.data.sort(...)); its catch only logs.
notesFetched(n, ok) ==
  IF ok THEN [n EXCEPT !.notes = sortByUpdated(srvList(srv))] ELSE n

\* fetchTrashedNotes: setTrashedNotes(response.data.sort(...)); its catch only logs.
trashedFetched(n, ok) ==
  IF ok THEN [n EXCEPT !.trashedNotes = sortByTrashed(srvListTrashed(srv))] ELSE n

\* login after a 2xx response: setToken, then await fetchNotes, then
\* await fetchTrashedNotes.
Login ==
  /\ ~token
  /\ logins < MaxLogins
  /\ logins' = logins + 1
  /\ UNCHANGED <<events, edits>>
  /\ Len(tasks) < MaxInFlight
  /\ Commit([Cl EXCEPT !.token = TRUE], FALSE)
  /\ tasks' = Append(tasks, [kind |-> "login", pc |-> "fetchNotes"])
  /\ authorized' = TRUE
  /\ UNCHANGED <<srv, clock, origin>>

LoginFetchNotes ==
  /\ \E i \in 1..Len(tasks), ok \in Answers :
       /\ tasks[i].kind = "login" /\ tasks[i].pc = "fetchNotes"
       /\ Commit(notesFetched(Cl, ok), ok)
       /\ tasks' = [tasks EXCEPT ![i].pc = "fetchTrashed"]
  /\ UNCHANGED <<budgetVars, serverVars, origin>>

LoginFetchTrashed ==
  /\ \E i \in 1..Len(tasks), ok \in Answers :
       /\ tasks[i].kind = "login" /\ tasks[i].pc = "fetchTrashed"
       /\ Commit(trashedFetched(Cl, ok), FALSE)
       /\ tasks' = removeAt(tasks, i)
  /\ UNCHANGED <<budgetVars, serverVars, origin>>

\* --------------------------------------------------------- move to trash
\* context menu Delete: deleteNote(id) up to its first await
DeleteNote ==
  /\ UserEvent
  /\ token /\ ~isTrashView
  /\ Len(tasks) < MaxInFlight
  /\ \E id \in ids(filteredNotes(Cl)) :
       /\ tasks' = Append(tasks, [kind |-> "trash", pc |-> "delete", id |-> id,
                                  notes |-> notes, sel |-> selectedNoteId])
  /\ Commit(Cl, FALSE)
  /\ UNCHANGED <<serverVars, origin>>

\* DELETE /notes/:id answered 200: setNotes(notes.filter(...)), then
\* await fetchTrashedNotes
DeleteOk ==
  /\ \E i \in 1..Len(tasks) :
       LET t == tasks[i] IN
       /\ t.kind = "trash" /\ t.pc = "delete"
       /\ srv[t.id].st = "active" /\ clockLeft
       /\ srv' = srvTrash(srv, clock + 1, t.id)
       /\ clock' = clock + 1
       /\ Commit([Cl EXCEPT !.notes = withoutId(t.notes, t.id)], TRUE)
       /\ tasks' = [tasks EXCEPT ![i].pc = "fetchTrashed"]
  /\ Accepted
  /\ UNCHANGED <<budgetVars, origin>>

\* ... then: if (selectedNoteId === id) resetNoteState()
DeleteFetchTrashed ==
  /\ \E i \in 1..Len(tasks), ok \in Answers :
       LET t == tasks[i]
           n == trashedFetched(Cl, ok)
       IN
       /\ t.kind = "trash" /\ t.pc = "fetchTrashed"
       /\ Commit(IF t.sel = t.id THEN resetNoteState(n) ELSE n, FALSE)
       /\ origin' = IF t.sel = t.id THEN NoId ELSE origin
       /\ tasks' = removeAt(tasks, i)
  /\ UNCHANGED <<budgetVars, serverVars>>

\* deleteNote's catch: alert, await fetchNotes, await fetchTrashedNotes
DeleteFail ==
  /\ \E i \in 1..Len(tasks) :
       /\ tasks[i].kind = "trash" /\ tasks[i].pc = "delete"
       /\ tasks' = [tasks EXCEPT ![i].pc = "catchFetchNotes"]
  /\ Commit(alerted(Cl, "Failed to move note to trash"), FALSE)
  /\ UNCHANGED <<budgetVars, serverVars, origin>>

DeleteCatchFetchNotes ==
  /\ \E i \in 1..Len(tasks), ok \in Answers :
       /\ tasks[i].kind = "trash" /\ tasks[i].pc = "catchFetchNotes"
       /\ Commit(notesFetched(Cl, ok), ok)
       /\ tasks' = [tasks EXCEPT ![i].pc = "catchFetchTrashed"]
  /\ UNCHANGED <<budgetVars, serverVars, origin>>

DeleteCatchFetchTrashed ==
  /\ \E i \in 1..Len(tasks), ok \in Answers :
       /\ tasks[i].kind = "trash" /\ tasks[i].pc = "catchFetchTrashed"
       /\ Commit(trashedFetched(Cl, ok), FALSE)
       /\ tasks' = removeAt(tasks, i)
  /\ UNCHANGED <<budgetVars, serverVars, origin>>

\* ------------------------------------------------------------ bulk restore
\* restoredNotes.filter((note) => note !== null), in the order of the ids
RECURSIVE validRestored(_, _)
validRestored(got, k) ==
  IF k > MaxNotes THEN <<>>
  ELSE (IF k \in DOMAIN got THEN got[k] ELSE <<>>) \o validRestored(got, k + 1)

settled(t) == \A id \in t.sel : t.st[id] \in {"ok", "null"}

\* The continuation of Promise.all(selectedTrashedNotes.map(restoreNote)).
bulkRestored(n, t) ==
  LET valid == validRestored(t.got, 1) IN
  IF Len(valid) > 0
  THEN [n EXCEPT !.notes = sortByUpdated(n.notes \o valid),
                 !.trashedNotes = withoutIds(n.trashedNotes, t.sel),
                 !.selTrash = {}]
  ELSE n

\* One restoreNote call of task i has moved on: t is the task after the
\* move and n the state after it; when every call has returned, the
\* continuation of Promise.all runs in the same turn.
RestoreAdvance(i, n, t, notesSet) ==
  IF settled(t)
  THEN /\ Commit(bulkRestored(n, t), notesSet \/ Len(validRestored(t.got, 1)) > 0)
       /\ tasks' = removeAt(tasks, i)
  ELSE /\ Commit(n, notesSet)
       /\ tasks' = [tasks EXCEPT ![i] = t]

\* bulk Restore onClick up to the await: one restoreNote(id) per selected id
BulkRestore ==
  /\ UserEvent
  /\ token /\ isTrashView /\ ~showDeleteConfirmModal
  /\ selectedTrashedNotes # {}
  /\ Len(tasks) < MaxInFlight
  /\ tasks' = Append(tasks, [kind |-> "restore", sel |-> selectedTrashedNotes,
                             st |-> [id \in selectedTrashedNotes |-> "req"],
                             got |-> [id \in selectedTrashedNotes |-> <<>>]])
  /\ Commit(Cl, FALSE)
  /\ UNCHANGED <<serverVars, origin>>

\* POST /trashed-notes/:id/restore answered 200: return response.data
RestoreOk ==
  /\ \E i \in 1..Len(tasks) :
       /\ tasks[i].kind = "restore"
       /\ \E id \in tasks[i].sel :
            LET s2 == srvRestore(srv, id)
                t == [tasks[i] EXCEPT !.st[id] = "ok", !.got[id] = <<noteOf(s2, id)>>]
            IN /\ tasks[i].st[id] = "req"
               /\ srv[id].st = "trashed"
               /\ srv' = s2
               /\ RestoreAdvance(i, Cl, t, FALSE)
  /\ Accepted
  /\ UNCHANGED <<budgetVars, clock, origin>>

\* restoreNote's catch: alert, await fetchNotes, await fetchTrashedNotes,
\* return null
RestoreFail ==
  /\ \E i \in 1..Len(tasks) :
       /\ tasks[i].kind = "restore"
       /\ \E id \in tasks[i].sel :
            /\ tasks[i].st[id] = "req"
            /\ tasks' = [tasks EXCEPT ![i].st[id] = "catchFetchNotes"]
  /\ Commit(alerted(Cl, "Failed to restore note"), FALSE)
  /\ UNCHANGED <<budgetVars, serverVars, origin>>

RestoreCatchFetchNotes ==
  /\ \E i \in 1..Len(tasks), ok \in Answers :
       /\ tasks[i].kind = "restore"
       /\ \E id \in tasks[i].sel :
            /\ tasks[i].st[id] = "catchFetchNotes"
            /\ tasks' = [tasks EXCEPT ![i].st[id] = "catchFetchTrashed"]
            /\ Commit(notesFetched(Cl, ok), ok)
  /\ UNCHANGED <<budgetVars, serverVars, origin>>

RestoreCatchFetchTrashed ==
  /\ \E i \in 1..Len(tasks), ok \in Answers :
       /\ tasks[i].kind = "restore"
       /\ \E id \in tasks[i].sel :
            LET t == [tasks[i] EXCEPT !.st[id] = "null"] IN
            /\ tasks[i].st[id] = "catchFetchTrashed"
            /\ RestoreAdvance(i, trashedFetched(Cl, ok), t, FALSE)
  /\ UNCHANGED <<budgetVars, serverVars, origin>>

\* ------------------------------------------------------------------ purge
\* handleSelectAll
selectedAll(n) ==
  LET filtered == filteredTrashedNotes(n) IN
  IF Cardinality(n.selTrash) = Len(filtered) /\ Len(filtered) > 0
  THEN [n EXCEPT !.selTrash = {}]
  ELSE [n EXCEPT !.selTrash = ids(filtered)]

HandleSelectAll ==
  /\ UserEvent
  /\ token /\ isTrashView /\ ~showDeleteConfirmModal
  /\ Commit(selectedAll(Cl), FALSE)
  /\ UNCHANGED <<tasks, serverVars, origin>>

\* triggerPermanentDeleteConfirmation(ids)
purgeAsked(n, idset) ==
  IF idset = {} THEN n ELSE [n EXCEPT !.toPurge = idset, !.modal = TRUE]

\* The Delete button of the trash view (the selected ids) or Delete in the
\* context menu of a trashed note (that note).
TriggerPermanentDeleteConfirmation ==
  /\ UserEvent
  /\ token /\ isTrashView /\ ~showDeleteConfirmModal
  /\ \E idset \in {selectedTrashedNotes}
                   \cup {{id} : id \in ids(filteredTrashedNotes(Cl))} :
       /\ idset # {}
       /\ Commit(purgeAsked(Cl, idset), FALSE)
  /\ UNCHANGED <<tasks, serverVars, origin>>

\* The confirmation is closed: setShowDeleteConfirmModal(false);
\* setNotesToDeletePermanently([])
modalClosed(n) == [n EXCEPT !.modal = FALSE, !.toPurge = {}]

\* No, if it also dropped the selection.
DeclinePurgeDeselects ==
  /\ UserEvent
  /\ showDeleteConfirmModal
  /\ Commit([modalClosed(Cl) EXCEPT !.selTrash = {}], FALSE)
  /\ UNCHANGED <<tasks, serverVars, origin>>

\* No
DeclinePurge ==
  /\ UserEvent
  /\ showDeleteConfirmModal
  /\ Commit(modalClosed(Cl), FALSE)
  /\ UNCHANGED <<tasks, serverVars, origin>>

\* Yes: executePermanentDeletion up to await Promise.all(...): one DELETE
\* per id of notesToDeletePermanently; with no id it returns at once.
ConfirmPurge ==
  /\ UserEvent
  /\ showDeleteConfirmModal
  /\ IF ~token \/ notesToDeletePermanently = {}
     THEN /\ Commit(modalClosed(Cl), FALSE)
          /\ tasks' = tasks
     ELSE /\ Len(tasks) < MaxInFlight
          /\ Commit(Cl, FALSE)
          /\ tasks' = Append(tasks,
               [kind |-> "purge", pc |-> "await",
                ids |-> notesToDeletePermanently,
                st |-> [id \in notesToDeletePermanently |-> "req"]])
  /\ UNCHANGED <<serverVars, origin>>

\* executePermanentDeletion after Promise.all resolved, and the rest of Yes
purged(n, t) ==
  modalClosed([n EXCEPT !.trashedNotes = withoutIds(n.trashedNotes, t.ids),
                        !.selTrash = n.selTrash \ t.ids])

purgeSettled(t) == \A id \in t.ids : t.st[id] # "req"

\* Task i of the purge has moved on to t: it is dropped once the function
\* has returned and every request is answered.
purgeTasks(i, t) ==
  IF t.pc = "done" /\ purgeSettled(t) THEN removeAt(tasks, i)
  ELSE [tasks EXCEPT ![i] = t]

\* DELETE /trashed-notes/:id answered 200; Promise.all resolves with the
\* last of them.
PurgeOk ==
  /\ \E i \in 1..Len(tasks) :
       /\ tasks[i].kind = "purge"
       /\ \E id \in tasks[i].ids :
            LET t1 == [tasks[i] EXCEPT !.st[id] = "ok"]
                all == \A k \in t1.ids : t1.st[k] = "ok"
                t == IF t1.pc = "await" /\ all THEN [t1 EXCEPT !.pc = "done"] ELSE t1
            IN /\ tasks[i].st[id] = "req"
               /\ srv[id].st = "trashed"
               /\ srv' = srvPurge(srv, id)
               /\ IF t1.pc = "await" /\ all
                  THEN Commit(purged(Cl, t1), FALSE)
                  ELSE Commit(Cl, FALSE)
               /\ tasks' = purgeTasks(i, t)
  /\ Accepted
  /\ UNCHANGED <<budgetVars, clock, origin>>

\* A DELETE fails; the first failure rejects Promise.all: catch, alert,
\* await fetchTrashedNotes.
PurgeFail ==
  /\ \E i \in 1..Len(tasks) :
       /\ tasks[i].kind = "purge"
       /\ \E id \in tasks[i].ids :
            LET t1 == [tasks[i] EXCEPT !.st[id] = "fail"]
                t == IF t1.pc = "await" THEN [t1 EXCEPT !.pc = "fetchTrashed"] ELSE t1
            IN /\ tasks[i].st[id] = "req"
               /\ tasks' = purgeTasks(i, t)
               /\ Commit(IF t1.pc = "await"
                         THEN alerted(Cl, "Failed to permanently delete notes")
                         ELSE Cl, FALSE)
  /\ UNCHANGED <<budgetVars, serverVars, origin>>

\* The catch's fetchTrashedNotes returns, executePermanentDeletion returns
\* and Yes closes the confirmation.
PurgeCatchFetchTrashed ==
  /\ \E i \in 1..Len(tasks), ok \in Answers :
       /\ tasks[i].kind = "purge" /\ tasks[i].pc = "fetchTrashed"
       /\ Commit(modalClosed(trashedFetched(Cl, ok)), FALSE)
       /\ tasks' = purgeTasks(i, [tasks[i] EXCEPT !.pc = "done"])
  /\ UNCHANGED <<budgetVars, serverVars, origin>>

\* ----------------------------------------------------------------- search
\* onChange of the search input of either view
SearchTyped ==
  /\ UserEvent
  /\ token /\ ~showDeleteConfirmModal
  /\ \E q \in Queries :
       /\ q # searchQuery
       /\ Commit([Cl EXCEPT !.query = q], FALSE)
  /\ UNCHANGED <<tasks, serverVars, origin>>

\* ---------------------------------------------------------- specification
Next ==
  \/ Login
  \/ Logout
  \/ HandleContentChange
  \/ SelectNote
  \/ NewNoteClick
  \/ UndoKey
  \/ OpenTrash
  \/ HandleBackToNotes
  \/ ToggleTrashed
  \/ TimerFire
  \/ CreateOk
  \/ CreateFail
  \/ UpdateOk
  \/ UpdateFail
  \/ LoginFetchNotes
  \/ LoginFetchTrashed
  \/ DeleteNote
  \/ DeleteOk
  \/ DeleteFetchTrashed
  \/ DeleteFail
  \/ DeleteCatchFetchNotes
  \/ DeleteCatchFetchTrashed
  \/ BulkRestore
  \/ RestoreOk
  \/ RestoreFail
  \/ RestoreCatchFetchNotes
  \/ RestoreCatchFetchTrashed
  \/ HandleSelectAll
  \/ TriggerPermanentDeleteConfirmation
  \/ DeclinePurge
  \/ ConfirmPurge
  \/ PurgeOk
  \/ PurgeFail
  \/ PurgeCatchFetchTrashed

Spec == Init /\ [][Next]_vars

\* Timer callbacks and network completions are run by the event loop once
\* they are due; user events are not obliged to happen.
Completion ==
  \/ CreateOk \/ CreateFail \/ UpdateOk \/ UpdateFail
  \/ LoginFetchNotes \/ LoginFetchTrashed
  \/ DeleteOk \/ DeleteFail \/ DeleteFetchTrashed
  \/ DeleteCatchFetchNotes \/ DeleteCatchFetchTrashed
  \/ RestoreOk \/ RestoreFail \/ RestoreCatchFetchNotes
  \/ RestoreCatchFetchTrashed
  \/ PurgeOk \/ PurgeFail \/ PurgeCatchFetchTrashed

FairSpec == Spec /\ WF_vars(TimerFire) /\ WF_vars(Completion)

\* ------------------------------------------------------------ step shapes
\* The step is a content change made by the user.
TypedStep == edits' = edits + 1

\* The step sends a create or an update request; SentRequest is that request.
SentRequest == tasks'[Len(tasks')]

SendsSave ==
  /\ Len(tasks') = Len(tasks) + 1
  /\ SentRequest.kind \in {"create", "update"}

\* The step is the 2xx completion of request i of the given kind.
CompletesOk(i, kind) ==
  /\ i \in 1..Len(tasks)
  /\ tasks[i].kind = kind
  /\ tasks' = removeAt(tasks, i)
  /\ clock' = clock + 1

\* The armed timer, if any, will send nothing when it fires.
TimerSendsNothing(tm) == tm = <<>> \/ timerRequest(tm[1]) = <<>>

\* --------------------------------------------------------------- claims
SaveKinds == {"create", "update"}

\* C1: every step that sends a create or an update request is the firing
\* of the armed debounce timer, which is consumed by it, and the request
\* carries the content and the title the editor holds at that moment, i.e.
\* the values left by the last edit (an update sends the content trimmed),
\* never an earlier value of the sequence of edits.
C1_SendsFinalValues ==
  [][SendsSave =>
       /\ timer # <<>> /\ timer' = <<>>
       /\ newContent' = newContent /\ currentTitle' = currentTitle
       /\ SentRequest.title = currentTitle
       /\ SentRequest.kind = "create" => SentRequest.content = newContent
       /\ SentRequest.kind = "update" =>
            /\ SentRequest.content = trim(newContent)
            /\ SentRequest.id = selectedNoteId]_vars

\* C1 witness: a request sent after the second edit of a sequence is in
\* flight and no user event happened since.
C1_Witness ==
  \E i \in 1..Len(tasks) :
    /\ tasks[i].kind \in SaveKinds
    /\ tasks[i].ed >= 2 /\ tasks[i].at = events
    /\ trim(tasks[i].content) = trim(newContent)

\* C2: an unsaved session sends exactly one create request for the content
\* typed (never two for the same edits), with a title that is derived from
\* that content.
C2_OneCreateDerivedTitle ==
  /\ \A i \in 1..Len(tasks) :
       tasks[i].kind = "create" =>
         tasks[i].title = deriveTitle(tasks[i].content)
  /\ \A i, j \in 1..Len(tasks) :
       (i < j /\ tasks[i].kind = "create" /\ tasks[j].kind = "create")
         => tasks[i].ed # tasks[j].ed

\* C3: every update request targets the note whose content was edited, and
\* none is sent for an unsaved session.
C3_UpdateTargetsEditedNote ==
  \A i \in 1..Len(tasks) :
    tasks[i].kind = "update" =>
      tasks[i].id # NoId /\ tasks[i].id = tasks[i].org

\* C4: once the content of an existing note was cleared (the undo buffer
\* holds the note), then unless the buffer is emptied by something else,
\* a move-to-trash request for that note is eventually issued.
C4_TombstoneFinalized ==
  [](tempDeletedNote # <<>> =>
       <>(\/ tempDeletedNote = <<>>
          \/ \E i \in 1..Len(tasks) : tasks[i].kind = "trash"))

C6_UndoRestores ==
  (tempDeletedNote # <<>> /\ textareaMounted(Cl)) =>
    LET note == tempDeletedNote[1]
        r == titleEffect(undoPressed(Cl))
    IN /\ note.id \in ids(r.notes)
       /\ r.sel = note.id
       /\ r.content = note.content
       /\ r.title = deriveTitle(note.content)
       /\ r.ocontent = r.content /\ r.otitle = r.title
       /\ r.tomb = <<>>

\* C7: when an update request succeeds and the user did nothing since it
\* was sent, the session is clean (content and title equal their
\* originals) and the timer, if armed, sends no further update.
C7_CleanAfterUpdate ==
  [][\A i \in 1..Len(tasks) :
       (CompletesOk(i, "update") /\ tasks[i].at = events
          /\ tasks[i].id = selectedNoteId /\ tasks[i].org = tasks[i].id)
       => /\ newContent' = originalContent'
          /\ currentTitle' = originalTitle'
          /\ TimerSendsNothing(timer')]_vars

\* C8: when a create request succeeds and the user did nothing since it
\* was sent, the session adopts the id of the response, the original
\* content is the content submitted, the original title and the title are
\* the title of the response, and the timer, if armed, sends nothing.
C8_CleanAfterCreate ==
  [][\A i \in 1..Len(tasks) :
       (CompletesOk(i, "create") /\ tasks[i].at = events)
       => /\ selectedNoteId' = nextId(srv)
          /\ originalContent' = tasks[i].content
          /\ originalTitle' = noteOf(srv', nextId(srv)).title
          /\ currentTitle' = originalTitle'
          /\ TimerSendsNothing(timer')]_vars

\* C8 witness: the one edit of the run was saved by a create: the session
\* has a note selected that the server stamped after the start.
C8_Witness ==
  /\ events = 1 /\ edits = 1
  /\ selectedNoteId # NoId
  /\ srv[selectedNoteId].updated_at = InitClock + 1
  /\ newContent = originalContent
  /\ tasks = <<>>

\* The step ends bulk restore i: its last restore call returns.
RestoreFinal(i) ==
  /\ i \in 1..Len(tasks)
  /\ tasks[i].kind = "restore"
  /\ tasks' = removeAt(tasks, i)

\* The ids of a bulk restore about to end whose request succeeded / failed.
restoredIds(t) == {id \in t.sel : t.st[id] \in {"ok", "req"}}
failedIds(t) == t.sel \ restoredIds(t)

\* C9: when a bulk restore ends, every note whose request succeeded is in
\* the active collection and not in the trashed one, and every note whose
\* request failed and that the server still holds trashed remains in the
\* trashed collection.
C9_BulkRestoreOutcome ==
  [][\A i \in 1..Len(tasks) :
       RestoreFinal(i) =>
         /\ \A id \in restoredIds(tasks[i]) :
              id \in ids(notes') /\ id \notin ids(trashedNotes')
         /\ \A id \in failedIds(tasks[i]) :
              (id \in ids(trashedNotes) /\ srv'[id].st = "trashed")
                => id \in ids(trashedNotes')]_vars

C11_OriginalsArePersisted ==
  IF selectedNoteId = NoId
  THEN originalContent = <<>> /\ originalTitle = <<>>
  ELSE srv[selectedNoteId].st # "none" =>
         /\ originalContent = srv[selectedNoteId].content
         /\ originalTitle = srv[selectedNoteId].title

\* C12: the undo buffer holds at most one note, and while it holds one no
\* note is selected and the content is blank.
C12_TombstoneMeansEvacuated ==
  /\ Len(tempDeletedNote) <= 1
  /\ tempDeletedNote # <<>> =>
       selectedNoteId = NoId /\ trim(newContent) = <<>>

\* C12 witness: the buffer holds a note while the textarea holds blank,
\* non-empty content.
C12_Witness ==
  /\ tempDeletedNote # <<>>
  /\ newContent # <<>>
  /\ trim(newContent) = <<>>

\* The step is the click on the tile of another note while the undo buffer
\* is empty.
SelectsOther ==
  /\ events' = events + 1 /\ edits' = edits
  /\ tempDeletedNote = <<>>
  /\ selectedNoteId' \notin {selectedNoteId, NoId}

\* C13: when another note is selected while the armed timer would send the
\* unsaved edits of the old session, that timer is cancelled: the timer
\* armed afterwards, if any, closes over the new note and its content only,
\* so the old edits are in no closure that could send them later; the
\* requests in flight are left as they are.
C13_SelectCancelsTimer ==
  [][(SelectsOther /\ timer # <<>> /\ timerRequest(timer[1]) # <<>>)
     => /\ timer' \in {<<>>, armTimer(Cl')}
        /\ timer' # <<>> =>
             /\ timer'[1].sel = selectedNoteId'
             /\ timer'[1].content = newContent'
             /\ findNote(notes, selectedNoteId') # <<>>
             /\ newContent' = findNote(notes, selectedNoteId')[1].content
        /\ tasks' = tasks]_vars

\* C13 witness: a note is selected and clean although the service holds no
\* edit of this run, an edit was typed and a request sent before the
\* selection is still in flight.
C13_Witness ==
  /\ edits >= 1
  /\ selectedNoteId # NoId
  /\ newContent = originalContent
  /\ findNote(notes, selectedNoteId) # <<>>
  /\ findNote(notes, selectedNoteId)[1].content = newContent
  /\ clock = InitClock
  /\ \E i \in 1..Len(tasks) :
       tasks[i].kind \in SaveKinds /\ tasks[i].at < events

\* C14: at most one timer is armed; an armed timer closes over the state as
\* it is now (every edit replaced the timer armed before it by a new one),
\* and a timer that fires is gone after sending its request: it fires once.
C14_OneTimer ==
  [][/\ Len(timer') <= 1
     /\ timer' \in {<<>>, armTimer(Cl')}
     /\ (TypedStep /\ trim(newContent') # <<>>) => timer' = armTimer(Cl')
     /\ (TypedStep /\ trim(newContent') = <<>>) => timer' = <<>>
     /\ (timer # <<>> /\ SendsSave) => timer' = <<>>]_vars

\* C14 witness: the timer armed by the second edit of a sequence is pending.
C14_Witness ==
  /\ edits >= 2
  /\ timer # <<>>
  /\ timer[1].content = newContent
  /\ timerRequest(timer[1]) # <<>>

\* C15: the active collection is ordered by updated_at, most recently
\* updated first, in every reachable state: after every create, update,
\* restore, undo and fetch, and after every removal.
C15_NotesSorted ==
  \A i, j \in 1..Len(notes) :
    i < j => notes[i].updated_at >= notes[j].updated_at

\* C15 witness: the collection holds two notes and the one updated during
\* this run comes first, ahead of a note with a smaller id or a larger one.
C15_Witness ==
  /\ Len(notes) >= 2
  /\ notes[1].updated_at > InitClock
  /\ notes[1].id < notes[2].id

\* The step is the failure of create or update request i.
SaveFails(i) ==
  /\ i \in 1..Len(tasks)
  /\ tasks[i].kind \in SaveKinds
  /\ tasks' = removeAt(tasks, i)
  /\ clock' = clock

\* The session has something to save: it is unsaved with non-blank
\* content, or it differs from its originals.
Dirty(n) ==
  trim(n.content) # <<>> /\ (n.sel = NoId \/ timerCallsSaveEdit(n))

\* C16: a failed create or update changes neither the session (noteId,
\* content, title, originals) nor the active collection, so the session is
\* as dirty as it was; and an edit that leaves the session dirty arms a new
\* timer whose firing sends the save again.
C16_FailureKeepsSession ==
  [][/\ \A i \in 1..Len(tasks) :
          SaveFails(i) =>
            /\ UNCHANGED <<selectedNoteId, newContent, currentTitle,
                           originalContent, originalTitle, notes>>
            /\ Dirty(Cl) => Dirty(Cl')
     /\ (TypedStep /\ Dirty(Cl')) =>
          /\ timer' # <<>>
          /\ timerRequest(timer'[1]) # <<>>
          /\ trim(timerRequest(timer'[1])[1].content) = trim(newContent')]_vars

\* C16 witness: a save has failed: the session is dirty, yet the timer has
\* fired, nothing is in flight and the service was not changed.
C16_Witness ==
  /\ token
  /\ Dirty(Cl)
  /\ timer = <<>>
  /\ tasks = <<>>
  /\ clock = InitClock

\* The states the handlers that empty the undo buffer leave, from the
\* current state: a tile click, non-blank typing, a consuming undo, a
\* session reset and logout.
EmptyingResults ==
  {noteClicked(Cl, notes[i]) : i \in 1..Len(notes)}
    \cup {contentChanged(Cl, c) : c \in {d \in Contents : trim(d) # <<>>}}
    \cup {resetNoteState(Cl), loggedOut(Cl)}
    \cup (IF tempDeletedNote # <<>> THEN {undone(Cl)} ELSE {})

\* C17: selecting a note, typing non-blank content, a consuming undo, a
\* session reset and logout each leave the undo buffer empty, with no undo
\* handler attached after the render that follows; and whenever the buffer
\* is empty no undo handler is attached, so invoking undo changes nothing.
C17_BufferEmptied ==
  /\ tempDeletedNote = <<>> => (~undoListener /\ undoPressed(Cl) = Cl)
  /\ \A r \in EmptyingResults :
       r.tomb = <<>> /\ ~undoEffect(titleEffect(r))

\* C17 witness: a note was cleared and the buffer then emptied by selecting
\* another note: the cleared note, still active on the service, is missing
\* from the collection although nothing was sent, and the buffer is empty.
C17_Witness ==
  /\ tempDeletedNote = <<>>
  /\ selectedNoteId # NoId
  /\ edits >= 1
  /\ clock = InitClock /\ tasks = <<>>
  /\ \E id \in NoteIds : srv[id].st = "active" /\ id \notin ids(notes)

\* The step sends the requests of a purge.
SendsPurge ==
  /\ Len(tasks') = Len(tasks) + 1
  /\ tasks'[Len(tasks')].kind = "purge"

\* The step is the user closing the confirmation: No, or Yes with nothing
\* to purge.
ClosesConfirmation ==
  /\ events' = events + 1
  /\ showDeleteConfirmModal /\ ~showDeleteConfirmModal'

\* C18: purge requests are sent only by a user event while the confirmation
\* is shown (the user's Yes), for exactly the ids the confirmation is
\* about; closing the confirmation without a purge sends nothing and
\* leaves the service, the trashed collection and the selection as they
\* are.
C18_PurgeNeedsConfirmation ==
  [][/\ SendsPurge =>
          /\ showDeleteConfirmModal
          /\ events' = events + 1
          /\ notesToDeletePermanently # {}
          /\ tasks'[Len(tasks')].ids = notesToDeletePermanently
          /\ \A id \in notesToDeletePermanently :
               tasks'[Len(tasks')].st[id] = "req"
     /\ ClosesConfirmation =>
          /\ tasks' = tasks
          /\ srv' = srv
          /\ trashedNotes' = trashedNotes
          /\ selectedTrashedNotes' = selectedTrashedNotes]_vars

\* C18 witness: the requests of a confirmed purge are in flight while the
\* confirmation is still shown.
C18_Witness ==
  /\ showDeleteConfirmModal
  /\ \E i \in 1..Len(tasks) :
       /\ tasks[i].kind = "purge" /\ tasks[i].pc = "await"
       /\ tasks[i].ids = notesToDeletePermanently

\* The step ends purge i: the function has returned and its last request
\* is answered.
PurgeEnds(i) ==
  /\ i \in 1..Len(tasks)
  /\ tasks[i].kind = "purge"
  /\ tasks' = removeAt(tasks, i)

\* C19: when a confirmed purge has ended, the ids whose request succeeded
\* are not in the trashed collection, and the ids whose request failed and
\* that were in it are still in it.
C19_PurgeOutcome ==
  [][\A i \in 1..Len(tasks) :
       PurgeEnds(i) =>
         \A id \in tasks[i].ids :
           /\ srv'[id].st = "purged" => id \notin ids(trashedNotes')
           /\ (srv'[id].st = "trashed" /\ id \in ids(trashedNotes))
                => id \in ids(trashedNotes')]_vars

\* Both local collections are the service's, in the client's order.
InSync(n) ==
  /\ n.notes = sortByUpdated(srvList(srv))
  /\ n.trashedNotes = sortByTrashed(srvListTrashed(srv))

\* The state the catch of a failed request leaves when its two fetches
\* succeed one after the other.
Refetched == trashedFetched(notesFetched(Cl, TRUE), TRUE)

\* The same for the restoreNote(id) call of bulk restore i, with what the
\* code runs in the same turn when that call was the last one to return.
RefetchedByRestore(i, id) ==
  LET t == [tasks[i] EXCEPT !.st[id] = "null"]
  IN IF settled(t) THEN bulkRestored(Refetched, t) ELSE Refetched

\* C20: when a move-to-trash or a restore request has failed and nothing
\* else is going on, the two fetches of its catch, once they succeed, leave
\* both local collections equal to the service's.
C20_RefetchResynchronizes ==
  \A i \in 1..Len(tasks) :
    Len(tasks) = 1 =>
      /\ (tasks[i].kind = "trash" /\ tasks[i].pc = "catchFetchNotes")
           => InSync(Refetched)
      /\ tasks[i].kind = "restore" =>
           \A id \in tasks[i].sel :
             (/\ tasks[i].st[id] = "catchFetchNotes"
              /\ \A k \in tasks[i].sel \ {id} : tasks[i].st[k] \in {"ok", "null"})
               => InSync(RefetchedByRestore(i, id))

\* The state the catch of a failed purge leaves when its fetch succeeds.
RefetchedByPurge == modalClosed(trashedFetched(Cl, TRUE))

\* C21: when a purge request has failed, every request of the purge is
\* answered and nothing else is going on, the re-fetch of its catch, once it
\* succeeds, leaves both the active and the trashed collection equal to the
\* service's.
C21_PurgeFailureRefetchesBoth ==
  \A i \in 1..Len(tasks) :
    (/\ Len(tasks) = 1
     /\ tasks[i].kind = "purge"
     /\ tasks[i].pc = "fetchTrashed"
     /\ purgeSettled(tasks[i]))
      => InSync(RefetchedByPurge)

\* The step in which executePermanentDeletion of purge i returns.
PurgeReturns(i) ==
  /\ i \in 1..Len(tasks)
  /\ tasks[i].kind = "purge"
  /\ tasks[i].pc # "done"
  /\ \/ tasks' = removeAt(tasks, i)
     \/ Len(tasks') = Len(tasks) /\ tasks'[i].pc = "done"

\* C22: the trash selection is empty after the trash view is left, after a
\* bulk restore has ended and after the purge of the selection has
\* returned, whatever the answers to their requests were.
C22_SelectionEmptied ==
  [][/\ (isTrashView /\ ~isTrashView') => selectedTrashedNotes' = {}
     /\ \A i \in 1..Len(tasks) :
          /\ RestoreFinal(i) => selectedTrashedNotes' = {}
          /\ (PurgeReturns(i) /\ selectedTrashedNotes \subseteq tasks[i].ids)
               => selectedTrashedNotes' = {}]_vars

\* ------------------------------------------------------ token expiry
\* The token is signed with expiresIn '1h'; once it has expired
\* authMiddleware answers 401 to every request that carries it.
TokenExpires ==
  /\ token /\ authorized
  /\ authorized' = FALSE
  /\ UNCHANGED <<notes, trashedNotes, selectedNoteId, newContent,
                 originalContent, currentTitle, originalTitle,
                 tempDeletedNote, token, isTrashView, selectedTrashedNotes,
                 showDeleteConfirmModal, notesToDeletePermanently,
                 searchQuery, timer, undoListener, tasks, srv, clock, events,
                 edits, logins, origin>>

\* A rejected request fails in the client like any other failed request,
\* which Next already lets happen at any time; the expiry is a step of its
\* own only where the rejection itself is looked at: signing in and out,
\* editing and autosaving with a token that may expire.
NextAuth ==
  \/ TokenExpires
  \/ Login
  \/ LoginFetchNotes
  \/ LoginFetchTrashed
  \/ Logout
  \/ HandleContentChange
  \/ SelectNote
  \/ NewNoteClick
  \/ UndoKey
  \/ TimerFire
  \/ CreateOk
  \/ CreateFail
  \/ UpdateOk
  \/ UpdateFail

AuthSpec == Init /\ [][NextAuth]_vars

\* The step answers a pending request with 401.
Rejected ==
  /\ ~authorized
  /\ tasks' # tasks
  /\ Len(tasks') <= Len(tasks)
  /\ events' = events

\* C24: when a request is rejected as unauthenticated, the session is
\* cleared: the token is dropped and the user is signed out.
C24_UnauthenticatedClearsSession == [][Rejected => ~token']_vars

\* C25: logout cancels the armed timer. From every state, the render after
\* logout arms no timer; the step that drops the token leaves the editor
\* empty and no timer armed; while signed out no timer is armed and no
\* create or update request is sent.
C25_LogoutCancelsTimer ==
  [][/\ armTimer(titleEffect(loggedOut(Cl))) = <<>>
     /\ (token /\ ~token') => (timer' = <<>> /\ newContent' = <<>>)
     /\ ~token' => timer' = <<>>
     /\ SendsSave => token]_vars

\* C25 witness: the user typed and then logged out with nothing saved and
\* nothing in flight; no timer is armed.
C25_Witness ==
  /\ ~token /\ logins = 1
  /\ edits = 1 /\ events = 2
  /\ clock = InitClock /\ tasks = <<>>
  /\ timer = <<>>

\* C26: once the move-to-trash request for the selected note has been
\* sent, no update request for that note is sent: among the requests in
\* flight, in the order they were sent, no update of a note follows the
\* move-to-trash of that note asked for while it was selected.
C26_TrashCancelsTimer ==
  \A i \in 1..Len(tasks), j \in 1..Len(tasks) :
    (/\ i < j
     /\ tasks[i].kind = "trash" /\ tasks[i].pc = "delete"
     /\ tasks[i].sel = tasks[i].id
     /\ tasks[j].kind = "update")
      => tasks[j].id # tasks[i].id

\* C29: a failed create or update is never shown to the user: whenever
\* such a request is in flight, the handler that runs if it fails raises no
\* alert.
C29_SaveFailureSilent ==
  \A i \in 1..Len(tasks) :
    /\ tasks[i].kind = "create" => createFailed(Cl).alert = NoAlert
    /\ tasks[i].kind = "update" => updateFailed(Cl).alert = NoAlert

\* C30: no create or update request carries a blank content, no armed
\* timer holds a blank content, and the autosave effect arms no timer while
\* the content is blank.
C30_NoBlankSave ==
  /\ \A i \in 1..Len(tasks) :
       tasks[i].kind \in SaveKinds => trim(tasks[i].content) # <<>>
  /\ timer # <<>> => trim(timer[1].content) # <<>>
  /\ trim(newContent) = <<>> => armTimer(Cl) = <<>>

\* C30 witness: the signed-in user has typed a whitespace-only content and
\* no timer is armed.
C30_Witness ==
  /\ token /\ edits >= 1
  /\ newContent # <<>> /\ trim(newContent) = <<>>
  /\ timer = <<>>

\* The step sends the move-to-trash request of a note.
SendsTrash ==
  /\ Len(tasks') = Len(tasks) + 1
  /\ SentRequest.kind = "trash"

\* C31: move-to-trash removes the note from the active collection when it
\* is invoked: after the step that sends the request, before any answer,
\* the note is not in the active collection.
C31_TrashIsOptimistic ==
  [][SendsTrash => SentRequest.id \notin ids(notes')]_vars

\* The step ends the successful move-to-trash i: the fetch that follows
\* the answered request returns and deleteNote finishes.
TrashHandlerEnds(i) ==
  /\ i \in 1..Len(tasks)
  /\ tasks[i].kind = "trash"
  /\ tasks[i].pc = "fetchTrashed"
  /\ tasks' = removeAt(tasks, i)

\* C32: when a move-to-trash request has succeeded and its handler has
\* finished, the note is not in the active collection and is in the
\* trashed collection.
C32_TrashedAfterSuccess ==
  [][\A i \in 1..Len(tasks) :
       TrashHandlerEnds(i) =>
         /\ tasks[i].id \notin ids(notes')
         /\ tasks[i].id \in ids(trashedNotes')]_vars

\* C33: the active collection holds at most one entry per note id.
C33_ActiveIdsUnique == Cardinality(ids(notes)) = Len(notes)

\* Since create i was sent the signed-in user has left the unsaved session
\* that sent it: a note that was already listed then is selected now, or the editor
\* is empty although nothing was typed since.
LeftUnsavedSession(i) ==
  /\ token
  /\ \/ selectedNoteId # NoId /\ selectedNoteId \in ids(tasks[i].notes)
     \/ /\ selectedNoteId = NoId /\ newContent = <<>>
        /\ edits = tasks[i].ed /\ events > tasks[i].at

\* The step leaves the identity and the baselines of the session alone.
SessionKept ==
  /\ selectedNoteId' = selectedNoteId
  /\ currentTitle' = currentTitle
  /\ originalContent' = originalContent
  /\ originalTitle' = originalTitle

\* C34: the answer to a create changes the session only if the session is
\* still the unsaved one that sent it: when the user has selected another
\* note or reset the session meanwhile, noteId, title, originalContent and
\* originalTitle stay as they are.
C34_CreateAdoptsOwnSession ==
  [][\A i \in 1..Len(tasks) :
       (CompletesOk(i, "create") /\ LeftUnsavedSession(i)) => SessionKept]_vars

\* Since update i was sent for its note the signed-in user has switched to
\* another note or started a new one.
LeftNote(i) ==
  /\ token
  /\ \/ selectedNoteId # NoId /\ selectedNoteId # tasks[i].id
     \/ selectedNoteId = NoId /\ tempDeletedNote = <<>>

\* C35: the answer to an update sent for note A that arrives after the user
\* has switched to note B or started a new note leaves the current
\* session's title, originalContent and originalTitle as they are.
C35_UpdateKeepsOtherSession ==
  [][\A i \in 1..Len(tasks) :
       (CompletesOk(i, "update") /\ LeftNote(i)) =>
         /\ currentTitle' = currentTitle
         /\ originalContent' = originalContent
         /\ originalTitle' = originalTitle]_vars

\* Creates i and j, sent in this order, come from one unsaved session: the
\* service has changed nothing yet and every user event between the two
\* was typing.
SameUnsavedSession(i, j) ==
  /\ i < j
  /\ tasks[i].kind = "create" /\ tasks[j].kind = "create"
  /\ clock = InitClock
  /\ tasks[j].at - tasks[i].at = tasks[j].ed - tasks[i].ed

\* C36: one unsaved session sends at most one create request, even when
\* the user keeps typing while it is in flight and the timer fires again
\* before the answer.
C36_OneCreatePerSession ==
  \A i \in 1..Len(tasks), j \in 1..Len(tasks) : ~SameUnsavedSession(i, j)

\* The step is the 2xx answer to the create, update or move-to-trash
\* request of task i.
AnsweredOk(i) ==
  \/ CompletesOk(i, "create")
  \/ CompletesOk(i, "update")
  \/ /\ i \in 1..Len(tasks)
     /\ tasks[i].kind = "trash" /\ tasks[i].pc = "delete"
     /\ Len(tasks') = Len(tasks) /\ tasks'[i].pc = "fetchTrashed"

\* The ids that came into the active collection while task i was in flight.
addedInFlight(i) == ids(notes) \ ids(tasks[i].notes)

\* C37: the handler of a 2xx answer to a create, update or move-to-trash
\* request keeps the notes that were added to the active collection while
\* the request was in flight.
C37_CompletionKeepsAdditions ==
  [][\A i \in 1..Len(tasks) :
       AnsweredOk(i) => addedInFlight(i) \subseteq ids(notes')]_vars

\* C38: while the user is signed out, the active collection, the trashed
\* collection and the edit session (noteId, content, baselines, undo
\* buffer) are empty, whatever answers to earlier requests arrive.
C38_SignedOutStaysEmpty ==
  ~token =>
    /\ notes = <<>>
    /\ trashedNotes = <<>>
    /\ selectedNoteId = NoId
    /\ newContent = <<>>
    /\ originalContent = <<>>
    /\ originalTitle = <<>>
    /\ tempDeletedNote = <<>>

\* C39: if a note is selected, a note with that id is in the active
\* collection.
C39_SelectedIsListed ==
  selectedNoteId # NoId => selectedNoteId \in ids(notes)

\* C40: every selected id of the trash view is the id of a note in the
\* trashed collection.
C40_SelectionIsTrashed == selectedTrashedNotes \subseteq ids(trashedNotes)

\* --------------------------------------------- the trash view with search
\* The trash view just opened by a signed-in user whose two fetches
\* succeeded.
InitSearch ==
  /\ srv \in InitServers
  /\ clock = InitClock
  /\ authorized = TRUE
  /\ notes = sortByUpdated(srvList(srv))
  /\ trashedNotes = sortByTrashed(srvListTrashed(srv))
  /\ selectedNoteId = NoId
  /\ newContent = <<>>
  /\ originalContent = <<>>
  /\ currentTitle = <<>>
  /\ originalTitle = <<>>
  /\ tempDeletedNote = <<>>
  /\ token = TRUE
  /\ isTrashView = TRUE
  /\ selectedTrashedNotes = {}
  /\ showDeleteConfirmModal = FALSE
  /\ notesToDeletePermanently = {}
  /\ searchQuery = <<>>
  /\ timer = <<>>
  /\ undoListener = FALSE
  /\ tasks = <<>>
  /\ events = 1
  /\ edits = 0
  /\ logins = 1
  /\ origin = NoId

\* Selecting in the trash view while searching.
NextSearch ==
  \/ SearchTyped
  \/ ToggleTrashed
  \/ HandleSelectAll

SearchSpec == InitSearch /\ [][NextSearch]_vars

\* The ids of the trashed notes the trash view lists.
visible == ids(filteredTrashedNotes(Cl))

\* C23: in the trash view, for every selection and every search query,
\* Select All leaves exactly the listed (search-filtered) ids selected when
\* not all of them are, and nothing selected when all of them are; a click
\* on a listed note adds or removes that id only.
C23_SelectAllOnVisible ==
  (token /\ isTrashView) =>
    /\ selectedAll(Cl).selTrash =
         (IF visible \subseteq selectedTrashedNotes THEN {} ELSE visible)
    /\ \A id \in visible :
         toggled(selectedTrashedNotes, id) =
           (IF id \in selectedTrashedNotes
            THEN selectedTrashedNotes \ {id}
            ELSE selectedTrashedNotes \cup {id})

\* ------------------------------------------------------ deriving the title
\* The two non-empty contents of the specification's examples.
ExSeven ==
  <<"a", " ", "b", " ", "c", " ", "d", " ", "e", " ", "f", " ", "g">>
ExTwo == <<"o", "n", "e", " ", "t", "w", "o">>

\* What is typed: every content of letters and spaces up to MaxTitleLen
\* (six words need eleven characters), every content that also has line
\* breaks up to MaxWsLen, and the examples.
TitleInputs ==
  UNION {[1..n -> Chars] : n \in 0..MaxTitleLen}
    \cup UNION {[1..n -> Chars \cup Whitespace] : n \in 0..MaxWsLen}
    \cup {ExSeven, ExTwo}

\* A signed-in user with no notes, in the notes view with an empty editor.
InitTitle ==
  /\ srv = [i \in NoteIds |-> NoNote]
  /\ clock = InitClock
  /\ authorized = TRUE
  /\ notes = <<>>
  /\ trashedNotes = <<>>
  /\ selectedNoteId = NoId
  /\ newContent = <<>>
  /\ originalContent = <<>>
  /\ currentTitle = <<>>
  /\ originalTitle = <<>>
  /\ tempDeletedNote = <<>>
  /\ token = TRUE
  /\ isTrashView = FALSE
  /\ selectedTrashedNotes = {}
  /\ showDeleteConfirmModal = FALSE
  /\ notesToDeletePermanently = {}
  /\ searchQuery = <<>>
  /\ timer = <<>>
  /\ undoListener = FALSE
  /\ tasks = <<>>
  /\ events = 0
  /\ edits = 0
  /\ logins = 1
  /\ origin = NoId

\* The content is set once.
TitleTyped == edits = 0 /\ ContentChange(TitleInputs)

\* The title effect derives the title of what was typed, and the timer
\* sends the create request with it.
NextTitle ==
  \/ TitleTyped
  \/ TimerFire

TitleSpec == InitTitle /\ [][NextTitle]_vars

\* The contract: the tokens of a content are its maximal runs of characters
\* that are not whitespace, from left to right.
tokenStarts(s) ==
  {i \in 1..Len(s) :
     s[i] \notin Whitespace /\ (i = 1 \/ s[i - 1] \in Whitespace)}

tokenFrom(s, i) ==
  LET j == CHOOSE e \in i..Len(s) :
             /\ \A k \in i..e : s[k] \notin Whitespace
             /\ e = Len(s) \/ s[e + 1] \in Whitespace
  IN SubSeq(s, i, j)

tokens(s) ==
  LET starts == tokenStarts(s)
      nth(k) == CHOOSE i \in starts : Cardinality({j \in starts : j < i}) = k - 1
  IN [k \in 1..Cardinality(starts) |-> tokenFrom(s, nth(k))]

RECURSIVE spaced(_, _)
spaced(ts, n) ==
  IF n = 0 THEN <<>>
  ELSE IF n = 1 THEN ts[1]
  ELSE spaced(ts, n - 1) \o <<" ">> \o ts[n]

\* derive(content) of the contract
derive(s) ==
  LET ts == tokens(s) IN
  IF Len(ts) = 0 THEN <<>>
  ELSE spaced(ts, Min(5, Len(ts)))
         \o (IF Len(ts) > 5 THEN <<".", ".", ".">> ELSE <<>>)

\* For every content typed in TitleSpec, the title the title effect
\* computes, the title of the create request and the title addNote derives
\* when the current title is blank are derive(content).
DeriveTitleMeetsContract ==
  /\ deriveTitle(newContent) = derive(newContent)
  /\ edits > 0 => currentTitle = derive(newContent)
  /\ \A i \in 1..Len(tasks) :
       tasks[i].kind = "create" => tasks[i].title = derive(tasks[i].content)
  /\ timer # <<>> =>
       addNoteRequest([timer[1] EXCEPT !.title = <<>>])[1].title
         = derive(timer[1].content)

\* C27: for every content, the title the title effect computes is the
\* first five whitespace-separated tokens joined by single spaces, followed
\* by "..." exactly when there are more than five, and empty for a blank
\* content; and the title of every create request is that title of the
\* content it carries.
C27_TitleIsDerived ==
  /\ deriveTitle(newContent) = derive(newContent)
  /\ \A i \in 1..Len(tasks) :
       tasks[i].kind = "create" => tasks[i].title = derive(tasks[i].content)

\* The title of "a b c d e f g": its first five tokens and the ellipsis.
ExSevenTitle ==
  <<"a", " ", "b", " ", "c", " ", "d", " ", "e", ".", ".", ".">>

\* The title the specification's example gives it.
ExSevenStated ==
  <<"a", " ", "b", " ", "c", " ", "d", " ", "e", " ", "f", ".", ".", ".">>

\* C28 (as amended): deriveTitle("") = "", deriveTitle("a b c d e f g") =
\* "a b c d e...", deriveTitle("one two") = "one two", for the function and
\* for the title shown once each content is typed.
C28_Examples ==
  /\ deriveTitle(<<>>) = <<>>
  /\ deriveTitle(ExSeven) = ExSevenTitle
  /\ deriveTitle(ExTwo) = ExTwo
  /\ newContent = <<>> => currentTitle = <<>>
  /\ (edits > 0 /\ newContent = ExSeven) => currentTitle = ExSevenTitle
  /\ (edits > 0 /\ newContent = ExTwo) => currentTitle = ExTwo

\* C28 witness: "a b c d e f g" was typed and its create request sent.
C28_Witness ==
  /\ newContent = ExSeven
  /\ edits = 1
  /\ Len(tasks) = 1 /\ tasks[1].content = ExSeven

\* C28 as stated: the title of "a b c d e f g" is "a b c d e f...".
C28_ExamplesAsStated ==
  /\ newContent = <<>> => currentTitle = <<>>
  /\ (edits > 0 /\ newContent = ExSeven) => currentTitle = ExSevenStated
  /\ (edits > 0 /\ newContent = ExTwo) => currentTitle = ExTwo

====
